---- MODULE Spec2Model ----
(***************************************************************************)
(* A model of the two pipelines of Plant_from_bug:                         *)
(*   scripts/collect_unique_hits.py  load_hits, should_replace,            *)
(*                                   select_unique_hits, main              *)
(*   scripts/prepare_fastas.py       iter_fastq_records, convert_file      *)
(*                                                                         *)
(* Text is a sequence of characters.  A character is a one-element token:  *)
(* the control characters TAB, QUOTE, NL, SP and AT are told apart, every  *)
(* other token ("S1", "100", "ACGT", ...) stands for a run of ordinary     *)
(* characters that contains none of them.                                  *)
(***************************************************************************)
EXTENDS Integers, Sequences, FiniteSets, TLC

VARIABLES
    \* collect_unique_hits.select_unique_hits
    hits,        \* the argument: a list of alignment records
    unique,      \* the dict being built (insertion ordered)
    idx,         \* number of hits the for loop has consumed
    result,      \* the returned list
    spc,         \* position of select_unique_hits: "scan" | "returned" | "off"
    \* collect_unique_hits.load_hits / main
    tsv,         \* the file --blast-tsv: its content is a list of lines
    lineno,      \* number of lines the csv reader has consumed
    loaded,      \* load_hits' list `hits`, then main's `hits`
    unique_hits, \* main's `unique_hits`
    mpc,         \* position of main
    fasta_file,  \* the file --unique-fasta
    table_file,  \* the file --unique-table
    dirs_made,   \* whether an output parent directory was created
    stdout,      \* messages printed
    \* prepare_fastas.convert_file / iter_fastq_records
    src,         \* the lines of the decompressed FASTQ input
    pos,         \* number of lines readline() has returned
    dest,        \* the destination file
    force,       \* the force argument of the running call
    record_count,\* convert_file's counter
    cpc,         \* position of convert_file
    yielded,     \* the pairs iter_fastq_records has yielded in this call
    cout,        \* what the calls printed or raised, oldest first
    runs,        \* number of convert_file calls started
    before,      \* dest as it was when the running call started
    last_forced, \* dest at the end of the previous call made with force
    prev_forced  \* dest at the end of the forced call before that one

vars == <<hits, unique, idx, result, spc,
          tsv, lineno, loaded, unique_hits, mpc, fasta_file, table_file, dirs_made, stdout,
          src, pos, dest, force, record_count, cpc, yielded, cout, runs,
          before, last_forced, prev_forced>>

selectVars == <<hits, unique, idx, result, spc>>
mainVars == <<tsv, lineno, loaded, unique_hits, mpc, fasta_file, table_file, dirs_made, stdout>>
convVars == <<src, pos, dest, force, record_count, cpc, yielded, cout, runs,
              before, last_forced, prev_forced>>

----------------------------------------------------------------------------
(* Characters and text *)

TAB == "\t"
QUOTE == "\""
NL == "\n"
SP == " "
AT == "@"
GT == ">"
\* a file: absent, or present with a content
Absent == [exists |-> FALSE, content |-> <<>>]
File(c) == [exists |-> TRUE, content |-> c]

\* the range of a sequence
Range(s) == {s[k] : k \in 1..Len(s)}

\* all sequences over S of length at most n
SeqUpTo(S, n) == UNION {[1..k -> S] : k \in 0..n}

----------------------------------------------------------------------------
(* collect_unique_hits.py: the records *)

BLAST_COLUMNS == <<"qseqid", "sseqid", "pident", "length", "mismatch", "gapopen",
                   "qstart", "qend", "sstart", "send", "evalue", "bitscore", "sseq">>

\* int(text) for the length texts of the model.
int(s) ==
    CASE s = <<"100">> -> 100
      [] s = <<"120">> -> 120

\* float(text): the decimal value m * 10^e of the text.
float(s) ==
    CASE s = <<"50">>    -> [m |-> 50,  e |-> 0]
      [] s = <<"80">>    -> [m |-> 80,  e |-> 0]
      [] s = <<"80.0">>  -> [m |-> 800, e |-> -1]
      [] s = <<"1e-5">>  -> [m |-> 1,   e |-> -5]
      [] s = <<"1e-10">> -> [m |-> 1,   e |-> -10]

RECURSIVE Pow10(_)
Pow10(n) == IF n = 0 THEN 1 ELSE 10 * Pow10(n - 1)

\* a < b on floats
FloatLt(a, b) ==
    LET lo == IF a.e < b.e THEN a.e ELSE b.e
    IN  a.m * Pow10(a.e - lo) < b.m * Pow10(b.e - lo)

FloatGt(a, b) == FloatLt(b, a)

(* A dict is a sequence of <<key, value>> pairs in insertion order. *)

DictHas(d, k) == \E n \in 1..Len(d) : d[n][1] = k

\* d[k], for a key the dict holds
DictGet(d, k) == d[CHOOSE n \in 1..Len(d) : d[n][1] = k][2]

\* a faulty d[k] = v: the pair is appended even when the key is present
DictSetAppend(d, k, v) == Append(d, <<k, v>>)

\* a faulty d[k] = v: an assigned key moves to the end of the order
DictSetMoveToEnd(d, k, v) ==
    Append(SelectSeq(d, LAMBDA p : p[1] # k), <<k, v>>)

\* d[k] = v: a present key keeps its place, a new key goes last
DictSet(d, k, v) ==
    IF DictHas(d, k)
    THEN [n \in 1..Len(d) |-> IF d[n][1] = k THEN <<k, v>> ELSE d[n]]
    ELSE Append(d, <<k, v>>)

\* list(d.values())
DictValues(d) == [n \in 1..Len(d) |-> d[n][2]]

\* a faulty should_replace: a full tie keeps the incumbent
should_replace_keep_on_tie(existing, candidate) ==
    LET exist_len == int(existing["length"])
        cand_len == int(candidate["length"])
        exist_bits == float(existing["bitscore"])
        cand_bits == float(candidate["bitscore"])
        exist_eval == float(existing["evalue"])
        cand_eval == float(candidate["evalue"])
    IN  IF cand_len > exist_len THEN TRUE
        ELSE IF cand_len < exist_len THEN FALSE
        ELSE IF FloatGt(cand_bits, exist_bits) THEN TRUE
        ELSE IF FloatLt(cand_bits, exist_bits) THEN FALSE
        ELSE IF FloatLt(cand_eval, exist_eval) THEN TRUE
        ELSE IF FloatGt(cand_eval, exist_eval) THEN FALSE
        ELSE FALSE

\* a faulty should_replace: the bitscore is not consulted
should_replace_skip_bitscore(existing, candidate) ==
    LET exist_len == int(existing["length"])
        cand_len == int(candidate["length"])
        exist_eval == float(existing["evalue"])
        cand_eval == float(candidate["evalue"])
    IN  IF cand_len > exist_len THEN TRUE
        ELSE IF cand_len < exist_len THEN FALSE
        ELSE IF FloatLt(cand_eval, exist_eval) THEN TRUE
        ELSE IF FloatGt(cand_eval, exist_eval) THEN FALSE
        ELSE TRUE

should_replace(existing, candidate) ==
    LET exist_len == int(existing["length"])
        cand_len == int(candidate["length"])
        exist_bits == float(existing["bitscore"])
        cand_bits == float(candidate["bitscore"])
        exist_eval == float(existing["evalue"])
        cand_eval == float(candidate["evalue"])
    IN  IF cand_len > exist_len THEN TRUE
        ELSE IF cand_len < exist_len THEN FALSE
        ELSE IF FloatGt(cand_bits, exist_bits) THEN TRUE
        ELSE IF FloatLt(cand_bits, exist_bits) THEN FALSE
        ELSE IF FloatLt(cand_eval, exist_eval) THEN TRUE
        ELSE IF FloatGt(cand_eval, exist_eval) THEN FALSE
        ELSE TRUE

\* one iteration of the for loop of select_unique_hits
ScanHit(d, hit) ==
    LET subject == hit["sseqid"]
    IN  IF ~DictHas(d, subject) \/ should_replace(DictGet(d, subject), hit)
        THEN DictSet(d, subject, hit)
        ELSE d

RECURSIVE ScanHits(_, _)
ScanHits(hs, n) ==
    IF n = 0 THEN <<>>
    ELSE CHOOSE d \in {ScanHit(prefix, hs[n]) : prefix \in {ScanHits(hs, n - 1)}} : TRUE

\* select_unique_hits as a function of its argument
select_unique_hits(hs) == DictValues(ScanHits(hs, Len(hs)))

----------------------------------------------------------------------------
(* Variables of a pipeline that a specification does not run *)

SelectOff ==
    /\ hits = <<>> /\ unique = <<>> /\ idx = 0 /\ result = <<>> /\ spc = "off"

MainOff ==
    /\ tsv = Absent /\ lineno = 0 /\ loaded = <<>> /\ unique_hits = <<>>
    /\ mpc = "off"
    /\ fasta_file = Absent /\ table_file = Absent /\ dirs_made = FALSE
    /\ stdout = <<>>

ConvOff ==
    /\ src = <<>> /\ pos = 0 /\ dest = Absent /\ force = FALSE
    /\ record_count = 0 /\ cpc = "off" /\ yielded = <<>> /\ cout = <<>>
    /\ runs = 0 /\ before = Absent /\ last_forced = <<>> /\ prev_forced = <<>>

----------------------------------------------------------------------------
(* select_unique_hits, one loop iteration per step *)

MaxHits == 3

\* a record of the alignment table; the columns select_unique_hits does not
\* read hold a fixed text
Hit(subject, len, bits, eval) ==
    [c \in Range(BLAST_COLUMNS) |->
        CASE c = "sseqid" -> subject
          [] c = "length" -> len
          [] c = "bitscore" -> bits
          [] c = "evalue" -> eval
          [] OTHER -> <<"x">>]

Subjects == {<<"S1">>, <<"S2">>}

\* <<length, bitscore, evalue>> texts: a longer hit that is worse on bitscore
\* and evalue, a higher bitscore with a worse evalue, hits that differ in
\* evalue alone, and two spellings of one bitscore
ScoreTexts ==
    { <<<<"120">>, <<"50">>,   <<"1e-5">>>>,
      <<<<"100">>, <<"80">>,   <<"1e-10">>>>,
      <<<<"100">>, <<"80">>,   <<"1e-5">>>>,
      <<<<"100">>, <<"80.0">>, <<"1e-5">>>>,
      <<<<"100">>, <<"50">>,   <<"1e-10">>>>,
      <<<<"100">>, <<"50">>,   <<"1e-5">>>> }

HitRecords == {Hit(s, t[1], t[2], t[3]) : s \in Subjects, t \in ScoreTexts}

SelectInit ==
    /\ hits \in SeqUpTo(HitRecords, MaxHits)
    /\ unique = <<>>
    /\ idx = 0
    /\ result = <<>>
    /\ spc = "scan"
    /\ MainOff
    /\ ConvOff

\* for hit in hits: ... (lines 106-110)
SelectLoop ==
    /\ spc = "scan"
    /\ idx < Len(hits)
    /\ unique' = ScanHit(unique, hits[idx + 1])
    /\ idx' = idx + 1
    /\ UNCHANGED <<hits, result, spc, mainVars, convVars>>

\* return list(unique.values()) (line 111)
SelectReturn ==
    /\ spc = "scan"
    /\ idx = Len(hits)
    /\ result' = DictValues(unique)
    /\ spc' = "returned"
    /\ UNCHANGED <<hits, unique, idx, mainVars, convVars>>

SelectNext == SelectLoop \/ SelectReturn

SpecSelect == SelectInit /\ [][SelectNext]_vars

----------------------------------------------------------------------------
(* Claims about select_unique_hits *)

SubjectsOf(hs) == {hs[k]["sseqid"] : k \in 1..Len(hs)}

\* the positions of a subject's records in the input
Group(hs, s) == {k \in 1..Len(hs) : hs[k]["sseqid"] = s}

\* the cascade, stated on the parsed values: a is strictly preferred to b
Preferred(a, b) ==
    \/ int(a["length"]) > int(b["length"])
    \/ /\ int(a["length"]) = int(b["length"])
       /\ FloatLt(float(b["bitscore"]), float(a["bitscore"]))
    \/ /\ int(a["length"]) = int(b["length"])
       /\ ~FloatLt(float(b["bitscore"]), float(a["bitscore"]))
       /\ ~FloatLt(float(a["bitscore"]), float(b["bitscore"]))
       /\ FloatLt(float(a["evalue"]), float(b["evalue"]))

\* a and b are equal on length, bitscore and evalue
SameScore(a, b) == ~Preferred(a, b) /\ ~Preferred(b, a)

\* C1: the returned list holds no two records of one sseqid, and as many
\* records as the input has distinct sseqid values; a non-empty input gives a
\* non-empty list.
C1_OnePerSubject ==
    spc = "returned" =>
        /\ \A a, b \in 1..Len(result) :
               result[a]["sseqid"] = result[b]["sseqid"] => a = b
        /\ Len(result) = Cardinality(SubjectsOf(hits))
        /\ (hits # <<>> => result # <<>>)

C1_Witness ==
    /\ spc = "returned"
    /\ Len(hits) = MaxHits
    /\ Len(result) = 2
    /\ hits[1]["sseqid"] = hits[MaxHits]["sseqid"]

Perms ==
    [n \in 0..(MaxHits + 1) |->
        {p \in [1..n -> 1..n] : \A a, b \in 1..n : p[a] = p[b] => a = b}]
Permuted(hs, p) == [k \in 1..Len(hs) |-> hs[p[k]]]

\* the record of subject s in a returned list
WinnerOf(res, s) == res[CHOOSE n \in 1..Len(res) : res[n]["sseqid"] = s]

\* no two records of the group of s are equal on length, bitscore and evalue
NoFullTie(hs, s) ==
    \A j, k \in Group(hs, s) : SameScore(hs[j], hs[k]) => j = k

FirstSeen(hs, s) == CHOOSE k \in Group(hs, s) : \A j \in Group(hs, s) : k <= j

\* C4: the winners are listed in the order in which their subjects first
\* appear in the input.
C4_FirstSeenOrder ==
    spc = "returned" =>
        \A a, b \in 1..Len(result) :
            a < b <=> FirstSeen(hits, result[a]["sseqid"])
                          < FirstSeen(hits, result[b]["sseqid"])

\* the first subject's winner is a record that comes after the second
\* subject's records
C4_Witness ==
    /\ spc = "returned"
    /\ Len(hits) = 3
    /\ hits[1]["sseqid"] = hits[3]["sseqid"]
    /\ hits[2]["sseqid"] # hits[1]["sseqid"]
    /\ Preferred(hits[3], hits[1])
    /\ result = <<hits[3], hits[2]>>

----------------------------------------------------------------------------
(* csv.reader(fh, delimiter="\t"): the default dialect otherwise, so         *)
(* quotechar is QUOTE, doublequote is on, strict is off                     *)

EOL == "EOL"

\* the reader's state at the start of a row (parse_reset)
ReaderReset == [state |-> "START_RECORD", field |-> <<>>, fields |-> <<>>]

\* parse_save_field
SaveField(r, next) ==
    [state |-> next, field |-> <<>>, fields |-> Append(r.fields, r.field)]

\* parse_add_char
AddChar(r, c, next) ==
    [state |-> next, field |-> Append(r.field, c), fields |-> r.fields]

Goto(r, next) == [r EXCEPT !.state = next]

AfterLine(c) == IF c = EOL THEN "START_RECORD" ELSE "EAT_CRNL"

\* parse_process_char
ProcessChar(r, c) ==
    CASE r.state \in {"START_RECORD", "START_FIELD"} ->
           IF r.state = "START_RECORD" /\ c = EOL THEN r
           ELSE IF r.state = "START_RECORD" /\ c = NL THEN Goto(r, "EAT_CRNL")
           ELSE IF c \in {NL, EOL} THEN SaveField(r, AfterLine(c))
           ELSE IF c = QUOTE THEN Goto(r, "IN_QUOTED_FIELD")
           ELSE IF c = TAB THEN SaveField(r, "START_FIELD")
           ELSE AddChar(r, c, "IN_FIELD")
      [] r.state = "IN_FIELD" ->
           IF c \in {NL, EOL} THEN SaveField(r, AfterLine(c))
           ELSE IF c = TAB THEN SaveField(r, "START_FIELD")
           ELSE AddChar(r, c, "IN_FIELD")
      [] r.state = "IN_QUOTED_FIELD" ->
           IF c = EOL THEN r
           ELSE IF c = QUOTE THEN Goto(r, "QUOTE_IN_QUOTED_FIELD")
           ELSE AddChar(r, c, "IN_QUOTED_FIELD")
      [] r.state = "QUOTE_IN_QUOTED_FIELD" ->
           IF c = QUOTE THEN AddChar(r, c, "IN_QUOTED_FIELD")
           ELSE IF c = TAB THEN SaveField(r, "START_FIELD")
           ELSE IF c \in {NL, EOL} THEN SaveField(r, AfterLine(c))
           ELSE AddChar(r, c, "IN_FIELD")
      [] r.state = "EAT_CRNL" ->
           IF c = EOL THEN Goto(r, "START_RECORD") ELSE r

\* the characters of one line, then the end-of-line mark
RECURSIVE ProcessLine(_, _, _)
ProcessLine(r, line, k) ==
    IF k > Len(line) THEN ProcessChar(r, EOL)
    ELSE ProcessLine(ProcessChar(r, line[k]), line, k + 1)

\* Reader.__next__ from line n + 1 on: the row, the number of lines consumed
\* so far, and whether the input ended with no row to return
RECURSIVE ReaderNext(_, _, _)
ReaderNext(lines, n, r) ==
    IF n >= Len(lines)
    THEN IF r.field # <<>> \/ r.state = "IN_QUOTED_FIELD"
         THEN [row |-> Append(r.fields, r.field), consumed |-> n, stop |-> FALSE]
         ELSE [row |-> <<>>, consumed |-> n, stop |-> TRUE]
    ELSE LET after == ProcessLine(r, lines[n + 1], 1)
         IN  IF after.state = "START_RECORD"
             THEN [row |-> after.fields, consumed |-> n + 1, stop |-> FALSE]
             ELSE ReaderNext(lines, n + 1, after)

\* dict(zip(BLAST_COLUMNS, line))
DictZip(cols, row) ==
    [c \in {cols[k] : k \in 1..Len(row)} |->
        row[CHOOSE k \in 1..Len(row) : cols[k] = c]]

----------------------------------------------------------------------------
(* collect_unique_hits.py: load_hits, the writers and main *)

\* a faulty `not x`: never true
FalsyNever(x) == FALSE

\* `not x` for a list x
Falsy(x) == Len(x) = 0

\* "hit1", "hit2", ...
HitId(n) == <<"hit", n>>

\* write_fasta's text, a list of lines: a header line per record, then the
\* chunks of wrap(sseq, width=80).  Every sseq of the model is shorter than 80
\* characters and holds no blank, so wrap gives it back as one chunk (and
\* nothing for an empty sseq).
FastaLines(records, n) ==
    LET hit == records[n]
        header == <<GT>> \o HitId(n) \o <<"|query:">> \o hit["qseqid"]
                    \o <<"|subject:">> \o hit["sseqid"]
                    \o <<"|pident:">> \o hit["pident"]
                    \o <<"|bitscore:">> \o hit["bitscore"] \o <<NL>>
    IN  IF hit["sseq"] = <<>> THEN <<header>>
        ELSE <<header, hit["sseq"] \o <<NL>>>>

RECURSIVE write_fasta(_, _)
write_fasta(records, n) ==
    IF n = 0 THEN <<>> ELSE write_fasta(records, n - 1) \o FastaLines(records, n)

\* write_table's text, a list of rows: the header row, then a row per record
\* (csv.writer quotes a field that holds a TAB, QUOTE or NL; the rows are kept
\* as lists of fields here)
TableRow(records, n) ==
    <<HitId(n)>> \o [k \in 1..Len(BLAST_COLUMNS) |-> records[n][BLAST_COLUMNS[k]]]

write_table(records) ==
    <<(<<"unique_id">> \o BLAST_COLUMNS)>>
        \o [n \in 1..Len(records) |-> TableRow(records, n)]

MaxLines == 3

RECURSIVE JoinTab(_, _)
JoinTab(fields, n) ==
    IF n = 0 THEN <<>>
    ELSE IF n = 1 THEN fields[1]
    ELSE JoinTab(fields, n - 1) \o <<TAB>> \o fields[n]

\* a line of the table: the fields joined by TAB, then NL
Line(fields) == JoinTab(fields, Len(fields)) \o <<NL>>

\* the 13 fields of a hit of query q on subject s with alignment length l
Fields(q, s, l) ==
    <<q, s, <<"99.1">>, l, <<"1">>, <<"0">>, <<"1">>, <<"100">>, <<"5">>,
      <<"104">>, <<"1e-5">>, <<"80">>, <<"ACGT">>>>

TsvLines ==
    { Line(Fields(<<"q1">>, <<"S1">>, <<"100">>)),
      Line(Fields(<<"q2">>, <<"S1">>, <<"120">>)),
      Line(Fields(<<"q3">>, <<"S2">>, <<"100">>)),
      \* an empty line, and a line of one blank
      <<NL>>,
      <<SP, NL>>,
      \* 12 fields and 14 fields
      Line(SubSeq(Fields(<<"q1">>, <<"S1">>, <<"100">>), 1, 12)),
      Line(Fields(<<"q1">>, <<"S1">>, <<"100">>) \o <<<<"extra">>>>),
      \* 13 fields, the first starts with a quote
      Line(Fields(<<QUOTE, "q1">>, <<"S1">>, <<"100">>)),
      \* 14 fields, the first two are  "q1  and  q2"
      Line(<<<<QUOTE, "q1">>>> \o Fields(<<"q2", QUOTE>>, <<"S1">>, <<"100">>)) }

MainInit ==
    /\ tsv \in {Absent} \cup {File(ls) : ls \in SeqUpTo(TsvLines, MaxLines)}
    /\ lineno = 0
    /\ loaded = <<>>
    /\ unique_hits = <<>>
    /\ mpc = "start"
    /\ fasta_file = Absent
    /\ table_file = Absent
    /\ dirs_made = FALSE
    /\ stdout = <<>>
    /\ SelectOff
    /\ ConvOff

\* if not args.blast_tsv.exists(): raise SystemExit(...) (lines 139-140)
MainNotFound ==
    /\ mpc = "start"
    /\ ~tsv.exists
    /\ mpc' = "exit"
    /\ stdout' = Append(stdout, "BLAST file not found")
    /\ UNCHANGED <<tsv, lineno, loaded, unique_hits, fasta_file, table_file,
                   dirs_made, selectVars, convVars>>

\* hits = load_hits(args.blast_tsv): the file is opened (lines 142, 60-62)
MainLoad ==
    /\ mpc = "start"
    /\ tsv.exists
    /\ mpc' = "load_hits"
    /\ lineno' = 0
    /\ loaded' = <<>>
    /\ UNCHANGED <<tsv, unique_hits, fasta_file, table_file, dirs_made, stdout,
                   selectVars, convVars>>

\* for line in reader: if not line: continue (lines 63-65)
LoadSkipEmpty ==
    /\ mpc = "load_hits"
    /\ \E nx \in {ReaderNext(tsv.content, lineno, ReaderReset)} :
        /\ ~nx.stop
        /\ Falsy(nx.row)
        /\ lineno' = nx.consumed
    /\ UNCHANGED <<tsv, loaded, unique_hits, mpc, fasta_file, table_file,
                   dirs_made, stdout, selectVars, convVars>>

\* if len(line) != len(BLAST_COLUMNS): raise ValueError(...) (lines 66-70);
\* the error leaves main, nothing is returned
LoadRaise ==
    /\ mpc = "load_hits"
    /\ \E nx \in {ReaderNext(tsv.content, lineno, ReaderReset)} :
        /\ ~nx.stop
        /\ ~Falsy(nx.row)
        /\ Len(nx.row) # Len(BLAST_COLUMNS)
        /\ lineno' = nx.consumed
    /\ loaded' = <<>>
    /\ mpc' = "ValueError"
    /\ UNCHANGED <<tsv, unique_hits, fasta_file, table_file, dirs_made, stdout,
                   selectVars, convVars>>

\* hits.append(dict(zip(BLAST_COLUMNS, line))) (line 71)
LoadAppend ==
    /\ mpc = "load_hits"
    /\ \E nx \in {ReaderNext(tsv.content, lineno, ReaderReset)} :
        /\ ~nx.stop
        /\ ~Falsy(nx.row)
        /\ Len(nx.row) = Len(BLAST_COLUMNS)
        /\ lineno' = nx.consumed
        /\ loaded' = Append(loaded, DictZip(BLAST_COLUMNS, nx.row))
    /\ UNCHANGED <<tsv, unique_hits, mpc, fasta_file, table_file, dirs_made,
                   stdout, selectVars, convVars>>

\* the reader is exhausted: return hits (line 72)
LoadReturn ==
    /\ mpc = "load_hits"
    /\ ReaderNext(tsv.content, lineno, ReaderReset).stop
    /\ mpc' = "loaded"
    /\ UNCHANGED <<tsv, lineno, loaded, unique_hits, fasta_file, table_file,
                   dirs_made, stdout, selectVars, convVars>>

\* if not hits: print("[skip] No hits found ..."); return (lines 143-145)
MainSkipNoHits ==
    /\ mpc = "loaded"
    /\ Falsy(loaded)
    /\ stdout' = Append(stdout, "[skip] No hits found")
    /\ mpc' = "done"
    /\ UNCHANGED <<tsv, lineno, loaded, unique_hits, fasta_file, table_file,
                   dirs_made, selectVars, convVars>>

\* unique_hits = select_unique_hits(hits); if not unique_hits: print(...);
\* return (lines 147-150)
MainSelect ==
    /\ mpc = "loaded"
    /\ ~Falsy(loaded)
    /\ unique_hits' = select_unique_hits(loaded)
    /\ IF Falsy(unique_hits')
       THEN /\ stdout' = Append(stdout, "[skip] No unique hits found")
            /\ mpc' = "done"
       ELSE /\ stdout' = stdout
            /\ mpc' = "write_fasta"
    /\ UNCHANGED <<tsv, lineno, loaded, fasta_file, table_file, dirs_made,
                   selectVars, convVars>>

\* write_fasta(unique_hits, args.unique_fasta) (lines 152, 114-124)
MainWriteFasta ==
    /\ mpc = "write_fasta"
    /\ dirs_made' = TRUE
    /\ fasta_file' = File(write_fasta(unique_hits, Len(unique_hits)))
    /\ mpc' = "write_table"
    /\ UNCHANGED <<tsv, lineno, loaded, unique_hits, table_file, stdout,
                   selectVars, convVars>>

\* write_table(unique_hits, args.unique_table); print("[ok] ...")
\* (lines 153-157, 127-134)
MainWriteTable ==
    /\ mpc = "write_table"
    /\ dirs_made' = TRUE
    /\ table_file' = File(write_table(unique_hits))
    /\ stdout' = Append(stdout, "[ok] Unique hits")
    /\ mpc' = "done"
    /\ UNCHANGED <<tsv, lineno, loaded, unique_hits, fasta_file,
                   selectVars, convVars>>

MainNext ==
    \/ MainNotFound
    \/ MainLoad
    \/ LoadSkipEmpty
    \/ LoadRaise
    \/ LoadAppend
    \/ LoadReturn
    \/ MainSkipNoHits
    \/ MainSelect
    \/ MainWriteFasta
    \/ MainWriteTable

SpecMain == MainInit /\ [][MainNext]_vars

----------------------------------------------------------------------------
(* Claims about load_hits and main *)

\* the tab-delimited fields of a line, its line end left out
RECURSIVE TabSplit(_, _)
TabSplit(line, k) ==
    IF k = 0 THEN <<<<>>>>
    ELSE LET done == TabSplit(line, k - 1)
             n == Len(done)
         IN  IF line[k] = NL THEN done
             ELSE IF line[k] = TAB THEN Append(done, <<>>)
             ELSE [done EXCEPT ![n] = Append(done[n], line[k])]

TabFields(line) == TabSplit(line, Len(line))

\* the lines that hold more than their line end
NonEmptyLines(ls) == SelectSeq(ls, LAMBDA l : l # <<NL>>)

WellFormed(ls) ==
    \A k \in 1..Len(ls) :
        ls[k] # <<NL>> => Len(TabFields(ls[k])) = Len(BLAST_COLUMNS)

\* C5: load_hits returns one record per non-empty line, in file order, each
\* with the 13 schema fields, when every non-empty line has 13 tab-delimited
\* fields; it raises when some non-empty line has another number of fields.
C5_LoadHitsContract ==
    /\ mpc = "loaded" =>
        /\ WellFormed(tsv.content)
        /\ Len(loaded) = Len(NonEmptyLines(tsv.content))
        /\ \A k \in 1..Len(loaded) :
            /\ DOMAIN loaded[k] = Range(BLAST_COLUMNS)
            /\ k <= Len(NonEmptyLines(tsv.content))
                => loaded[k]["sseqid"] = TabFields(NonEmptyLines(tsv.content)[k])[2]
    /\ mpc = "ValueError" => ~WellFormed(tsv.content)

\* C6: a table that yields no record ends main with no output file, no
\* output directory and a reported skip; output is written only when both
\* the parsed list and the winner list are non-empty.
C6_EmptyTableSkips ==
    /\ (mpc = "done" /\ loaded = <<>>) =>
        /\ ~fasta_file.exists
        /\ ~table_file.exists
        /\ ~dirs_made
        /\ stdout = <<"[skip] No hits found">>
    /\ (fasta_file.exists \/ table_file.exists \/ dirs_made) =>
        /\ loaded # <<>>
        /\ unique_hits # <<>>
    /\ (mpc \in {"write_fasta", "write_table"}) =>
        /\ loaded # <<>>
        /\ unique_hits # <<>>

\* a table of empty lines only
C6_Witness ==
    /\ mpc = "done"
    /\ tsv.exists
    /\ Len(tsv.content) = 2
    /\ loaded = <<>>
    /\ lineno = 2
    /\ stdout = <<"[skip] No hits found">>

----------------------------------------------------------------------------
(* prepare_fastas.py: iter_fastq_records *)

Whitespace == {SP, TAB, NL}

RECURSIVE LStrip(_)
LStrip(s) ==
    IF s # <<>> /\ Head(s) \in Whitespace THEN LStrip(Tail(s)) ELSE s

RECURSIVE RStrip(_)
RStrip(s) ==
    IF s # <<>> /\ s[Len(s)] \in Whitespace
    THEN RStrip(SubSeq(s, 1, Len(s) - 1))
    ELSE s

\* bytes.decode().strip(); the characters of the model are ASCII, which
\* decode() maps to themselves
Strip(s) == RStrip(LStrip(s))

\* str.split(): the maximal runs of non-whitespace characters
RECURSIVE Split(_, _)
Split(s, k) ==
    IF k = 0 THEN <<>>
    ELSE LET done == Split(s, k - 1)
         IN  IF s[k] \in Whitespace THEN done
             ELSE IF k > 1 /\ s[k - 1] \notin Whitespace
                  THEN [done EXCEPT ![Len(done)] = Append(done[Len(done)], s[k])]
                  ELSE Append(done, <<s[k]>>)

\* handle.readline() after n lines were read: the next line, or b"" at the end
Readline(lines, n) == IF n < Len(lines) THEN lines[n + 1] ELSE <<>>

\* a faulty framing test: the quality line is not looked at
TruncatedIgnoringQual(seq, plus, qual) == ~(seq # <<>> /\ plus # <<>>)

\* not (seq and plus and qual)
Truncated(seq, plus, qual) == ~(seq # <<>> /\ plus # <<>> /\ qual # <<>>)

Min(a, b) == IF a < b THEN a ELSE b

\* one pass of the while loop of iter_fastq_records, n lines having been
\* read: what happens, the lines read afterwards, and the error text or the
\* yielded pair
iter_fastq_records(lines, n) ==
    LET header == Readline(lines, n)
        seq == Readline(lines, n + 1)
        plus == Readline(lines, n + 2)
        qual == Readline(lines, n + 3)
        header_str == Strip(header)
        seq_str == Strip(seq)
        tokens == Split(Tail(header_str), Len(header_str) - 1)
        nothing == <<>>
    IN  IF header = <<>>
        THEN [kind |-> "stop", read |-> n, text |-> nothing, pair |-> nothing]
        ELSE IF Truncated(seq, plus, qual)
        THEN [kind |-> "ValueError: FASTQ file ended unexpectedly",
              read |-> Min(n + 4, Len(lines)), text |-> nothing, pair |-> nothing]
        ELSE IF header_str = <<>> \/ Head(header_str) # AT
        THEN [kind |-> "ValueError: Malformed FASTQ header",
              read |-> n + 4, text |-> header_str, pair |-> nothing]
        ELSE IF tokens = <<>>
        THEN [kind |-> "IndexError: list index out of range",
              read |-> n + 4, text |-> nothing, pair |-> nothing]
        ELSE [kind |-> "yield", read |-> n + 4, text |-> nothing,
              pair |-> <<tokens[1], seq_str>>]

----------------------------------------------------------------------------
(* prepare_fastas.py: convert_file *)

MaxRecords == 2
MaxRuns == 3

\* a faulty skip test: force is not consulted
ShouldSkipIgnoringForce(exists, frc) == exists

\* dest.exists() and not force
ShouldSkip(exists, frc) == exists /\ ~frc

\* a faulty write: the sequence line loses its line end
FastaRecordNoLineEnd(header, seq) == <<GT>> \o header \o <<NL>> \o seq

\* f">{header}\n{seq}\n"
FastaRecord(header, seq) == <<GT>> \o header \o <<NL>> \o seq \o <<NL>>

Headers ==
    { <<AT, "r1", SP, "desc", NL>>,     \* an identifier and a description
      <<SP, AT, SP, "r2", NL>>,         \* blanks before and after the marker
      <<"r3", NL>>,                     \* no marker
      <<AT, SP, NL>> }                  \* the marker and no identifier

SequenceLines == { <<"ACGT", NL>>, <<"NNN", NL>> }

FastqRecord(h, q) == <<h, q, <<"+", NL>>, <<"IIII", NL>>>>

FastqRecords == {FastqRecord(h, q) : h \in Headers, q \in SequenceLines}

\* a record cut after its first, second or third line, or nothing
Tails ==
    {<<>>} \cup {SubSeq(FastqRecord(h, <<"ACGT", NL>>), 1, k) : h \in Headers, k \in 1..3}

RECURSIVE Concat(_, _)
Concat(ss, n) == IF n = 0 THEN <<>> ELSE Concat(ss, n - 1) \o ss[n]

FastqStreams ==
    {Concat(rs, Len(rs)) \o t : rs \in SeqUpTo(FastqRecords, MaxRecords), t \in Tails}

Message(kind, count, text) == [kind |-> kind, count |-> count, text |-> text]

ConvInit ==
    /\ src \in FastqStreams
    /\ dest \in {Absent, File(<<"old", NL>>)}
    /\ pos = 0
    /\ force = FALSE
    /\ record_count = 0
    /\ cpc = "idle"
    /\ yielded = <<>>
    /\ cout = <<>>
    /\ runs = 0
    /\ before = dest
    /\ last_forced = <<>>
    /\ prev_forced = <<>>
    /\ SelectOff
    /\ MainOff

\* main calls convert_file(fastq, fasta, args.force) (lines 102, 124); the
\* script may be run again on the same input
ConvertCall(frc) ==
    /\ cpc \in {"idle", "done", "error"}
    /\ runs < MaxRuns
    /\ runs' = runs + 1
    /\ force' = frc
    /\ before' = dest
    /\ pos' = 0
    /\ record_count' = 0
    /\ yielded' = <<>>
    /\ cpc' = "entry"
    /\ UNCHANGED <<src, dest, cout, last_forced, prev_forced, selectVars, mainVars>>

\* if dest.exists() and not force: print("[skip] ..."); return (lines 44-46)
ConvertSkip ==
    /\ cpc = "entry"
    /\ ShouldSkip(dest.exists, force)
    /\ cout' = Append(cout, Message("[skip]", 0, <<>>))
    /\ cpc' = "done"
    /\ UNCHANGED <<src, pos, dest, force, record_count, yielded, runs, before,
                   last_forced, prev_forced, selectVars, mainVars>>

\* gzip.open(src, "rb"), dest.open("w"): the destination is created or
\* emptied; record_count = 0 (lines 48-50)
ConvertOpen ==
    /\ cpc = "entry"
    /\ ~ShouldSkip(dest.exists, force)
    /\ dest' = File(<<>>)
    /\ pos' = 0
    /\ record_count' = 0
    /\ cpc' = "loop"
    /\ UNCHANGED <<src, force, yielded, cout, runs, before, last_forced,
                   prev_forced, selectVars, mainVars>>

\* the call ends, by return or by an error: the files are closed, and the
\* destination a forced call leaves is remembered
EndOfCall(final) ==
    IF force
    THEN /\ prev_forced' = last_forced
         /\ last_forced' = <<final>>
    ELSE UNCHANGED <<last_forced, prev_forced>>

\* the reader yields a pair; fh_out.write(...); record_count += 1
\* (lines 51-53, 24-39)
PullYield ==
    /\ cpc = "loop"
    /\ \E o \in {iter_fastq_records(src, pos)} :
        /\ o.kind = "yield"
        /\ pos' = o.read
        /\ yielded' = Append(yielded, o.pair)
        /\ dest' = File(dest.content \o FastaRecord(o.pair[1], o.pair[2]))
    /\ record_count' = record_count + 1
    /\ UNCHANGED <<src, force, cpc, cout, runs, before, last_forced,
                   prev_forced, selectVars, mainVars>>

\* the header read is empty: the reader ends, print("[ok] ...") (lines 24-26, 54)
PullStop ==
    /\ cpc = "loop"
    /\ \E o \in {iter_fastq_records(src, pos)} :
        /\ o.kind = "stop"
        /\ pos' = o.read
    /\ cout' = Append(cout, Message("[ok]", record_count, <<>>))
    /\ cpc' = "done"
    /\ EndOfCall(dest)
    /\ UNCHANGED <<src, dest, force, record_count, yielded, runs, before,
                   selectVars, mainVars>>

\* the reader raises (lines 31-32, 35-36, 39); the error leaves convert_file
PullRaise(kind) ==
    /\ cpc = "loop"
    /\ \E o \in {iter_fastq_records(src, pos)} :
        /\ o.kind = kind
        /\ pos' = o.read
        /\ cout' = Append(cout, Message(kind, 0, o.text))
    /\ cpc' = "error"
    /\ EndOfCall(dest)
    /\ UNCHANGED <<src, dest, force, record_count, yielded, runs, before,
                   selectVars, mainVars>>

\* raise ValueError("FASTQ file ended unexpectedly; ...") (lines 31-32)
PullTruncated == PullRaise("ValueError: FASTQ file ended unexpectedly")

\* raise ValueError(f"Malformed FASTQ header: {header_str}") (lines 35-36)
PullMalformed == PullRaise("ValueError: Malformed FASTQ header")

\* header_str[1:].split()[0] on an empty list (line 39)
PullIndexError == PullRaise("IndexError: list index out of range")

ConvNext ==
    \/ \E frc \in BOOLEAN : ConvertCall(frc)
    \/ ConvertSkip
    \/ ConvertOpen
    \/ PullYield
    \/ PullStop
    \/ PullTruncated
    \/ PullMalformed
    \/ PullIndexError

SpecConv == ConvInit /\ [][ConvNext]_vars

----------------------------------------------------------------------------
(* Claims about iter_fastq_records and convert_file *)

Last(s) == s[Len(s)]

\* the number of complete 4-line records of a stream
Complete(lines) == Len(lines) \div 4

HeaderOf(lines, i) == lines[4 * i - 3]
SequenceOf(lines, i) == lines[4 * i - 2]

\* the characters of s before its first whitespace character
RECURSIVE FirstWord(_)
FirstWord(s) ==
    IF s = <<>> \/ Head(s) \in Whitespace THEN <<>>
    ELSE <<Head(s)>> \o FirstWord(Tail(s))

\* the header without its surrounding whitespace
Trimmed(h) == RStrip(LStrip(h))

\* the first whitespace-delimited token after the record marker, <<>> when
\* the header has no marker or no token
Identifier(h) ==
    IF Trimmed(h) = <<>> \/ Head(Trimmed(h)) # AT THEN <<>>
    ELSE FirstWord(LStrip(Tail(Trimmed(h))))

HeaderShapeOK(h) == Identifier(h) # <<>>

\* the text split at its line ends; a text that ends with a line end gives
\* an empty last element
RECURSIVE LineSplit(_, _)
LineSplit(text, k) ==
    IF k = 0 THEN <<<<>>>>
    ELSE LET done == LineSplit(text, k - 1)
         IN  IF text[k] = NL THEN Append(done, <<>>)
             ELSE [done EXCEPT ![Len(done)] = Append(done[Len(done)], text[k])]

\* the lines of the FASTA records of the first k records of the stream
FastaLinesOf(lines, k) ==
    [n \in 1..(2 * k) |->
        IF n % 2 = 1 THEN <<GT>> \o Identifier(HeaderOf(lines, (n + 1) \div 2))
        ELSE RStrip(SequenceOf(lines, n \div 2))]

\* the destination holds the two-line records of the first k records of the
\* stream, and nothing else
DestHolds(k) ==
    /\ dest.exists
    /\ LineSplit(dest.content, Len(dest.content)) = FastaLinesOf(src, k) \o <<<<>>>>

Framing == "ValueError: FASTQ file ended unexpectedly"
Malformed == "ValueError: Malformed FASTQ header"

\* C7: a stream cut inside a record makes the reader fail without a pair for
\* that record; the pairs before the failure are those of the complete
\* records, and the destination holds their records only.  The reader ends
\* without error only on an empty read at a header position.
C7_TruncatedStreamFails ==
    /\ Len(yielded) <= Complete(src)
    /\ (cpc = "error" /\ Last(cout).kind = Framing) =>
        /\ Len(src) % 4 # 0
        /\ pos = Len(src)
        /\ Len(yielded) = Complete(src)
        /\ \A i \in 1..Len(yielded) :
            yielded[i] = <<Identifier(HeaderOf(src, i)), RStrip(SequenceOf(src, i))>>
        /\ DestHolds(Complete(src))
    /\ (cpc = "done" /\ Last(cout).kind = "[ok]") =>
        /\ Len(src) % 4 = 0
        /\ pos = Len(src)

\* one complete record, then a record that lacks its quality line
C7_Witness ==
    /\ cpc = "error"
    /\ Last(cout).kind = Framing
    /\ Len(src) = 7
    /\ Len(yielded) = 1
    /\ dest.content # <<>>

\* C8: a complete record whose header, without its surrounding whitespace, is
\* not the marker followed by a token fails with the malformed-header error
\* naming the header text, and gives no pair; otherwise the identifier
\* yielded is the first token after the marker.
C8_MalformedHeaderReported ==
    (cpc \in {"loop", "done", "error"} /\ pos > 0 /\ pos % 4 = 0) =>
        IF HeaderShapeOK(HeaderOf(src, pos \div 4))
        THEN /\ Len(yielded) = pos \div 4
             /\ Last(yielded)[1] = Identifier(HeaderOf(src, pos \div 4))
        ELSE /\ cpc = "error"
             /\ Last(cout) = Message(Malformed, 0, Trimmed(HeaderOf(src, pos \div 4)))
             /\ Len(yielded) = pos \div 4 - 1

WellFormedFastq(lines) ==
    /\ Len(lines) % 4 = 0
    /\ \A i \in 1..Complete(lines) : HeaderShapeOK(HeaderOf(lines, i))

\* C9: a stream of n complete well-formed records is converted, when the
\* call does not skip, to n two-line records in input order, and n is the
\* count reported; every pull reads 4 lines, and the lines read never exceed
\* 4 times the records written plus 4.
C9_WellFormedConversion ==
    /\ pos <= 4 * record_count + 4
    /\ WellFormedFastq(src) =>
        /\ cpc # "error"
        /\ cpc = "loop" =>
            /\ pos = 4 * record_count
            /\ DestHolds(record_count)
        /\ (cpc = "done" /\ Last(cout).kind = "[ok]") =>
            /\ DestHolds(Complete(src))
            /\ record_count = Complete(src)
            /\ Last(cout).count = Complete(src)
            /\ pos = 4 * Complete(src)

\* two records with different headers and sequences, converted
C9_Witness ==
    /\ WellFormedFastq(src)
    /\ Complete(src) = 2
    /\ HeaderOf(src, 1) # HeaderOf(src, 2)
    /\ SequenceOf(src, 1) # SequenceOf(src, 2)
    /\ cpc = "done"
    /\ Last(cout) = Message("[ok]", 2, <<>>)

\* C10: a call that finds the destination and has no force ends as a
\* reported skip, with the destination as it was and no line read; a call
\* with force rewrites the destination from the input, and two calls with
\* force leave the same content.
C10_SkipAndForce ==
    /\ (cpc \in {"loop", "done", "error"} /\ before.exists /\ ~force) =>
        /\ cpc = "done"
        /\ Last(cout).kind = "[skip]"
        /\ dest = before
        /\ pos = 0
        /\ yielded = <<>>
    /\ (cpc \in {"done", "error"} /\ runs > 0 /\ force) =>
        /\ Last(cout).kind # "[skip]"
        /\ DestHolds(Len(yielded))
        /\ last_forced = <<dest>>
    /\ (last_forced # <<>> /\ prev_forced # <<>>) => last_forced = prev_forced

\* a forced call fails part-way over an old destination, the next call
\* without force skips over what it left, and a second forced call follows
C10_Witness ==
    /\ runs = 3
    /\ cpc = "error"
    /\ Len(cout) = 3
    /\ cout[1].kind = Framing
    /\ cout[2].kind = "[skip]"
    /\ prev_forced # <<>>
    /\ prev_forced[1].content # <<>>
    /\ last_forced = prev_forced

====
